---- MODULE Spec2Model ----
(***************************************************************************)
(* Model of hik_sync.py: the polling loop of main, the orchestrator        *)
(* process_logs, and the dedup ledger kept in memory (sent_timestamps) and *)
(* in the append-only text file written by save_sent_timestamp and read by *)
(* load_sent_timestamps.                                                   *)
(*                                                                         *)
(* Python strings are sequences of one-character strings, so that          *)
(* formatting a ledger line and parsing it back are different operators.   *)
(***************************************************************************)
EXTENDS Integers, Sequences, FiniteSets, TLC

----------------------------------------------------------------------------
(* Bounds of the model *)

\* wall-clock values are 0..MaxClock
MaxClock == 1
\* at most MaxFaults faults of the environment are explored: failed calls to
\* the HR backend and backward steps of the wall clock
MaxFaults == 1
\* at most MaxRestarts restarts of the process are explored
MaxRestarts == 1
\* the ledger specification writes at most MaxWrites records
MaxWrites == 2
\* the ledger specification starts from raw files of at most MaxRaw characters
MaxRaw == 2
\* the conversion specification converts the minute counts 0..MaxMinutes
MaxMinutes == 1440

----------------------------------------------------------------------------
(* Strings *)

SP == " "
NL == "\n"
Whitespace == {SP, NL}

RECURSIVE LStrip(_)
LStrip(s) ==
    IF s # <<>> /\ Head(s) \in Whitespace THEN LStrip(Tail(s)) ELSE s

RECURSIVE RStrip(_)
RStrip(s) ==
    IF s # <<>> /\ s[Len(s)] \in Whitespace
    THEN RStrip(SubSeq(s, 1, Len(s) - 1))
    ELSE s

\* str.strip()
Strip(s) == RStrip(LStrip(s))

\* index of the first occurrence of character c in s, 0 when there is none
FirstIndex(s, c) ==
    LET at == {n \in 1..Len(s) : s[n] = c}
    IN  IF at = {} THEN 0 ELSE CHOOSE n \in at : \A m \in at : n <= m

\* f.readlines(): the lines of the file; the terminator of a line is left
\* out because strip() removes it, an unterminated last line is a line too
RECURSIVE ReadLines(_)
ReadLines(data) ==
    IF data = <<>> THEN <<>>
    ELSE LET n == FirstIndex(data, NL)
         IN  IF n = 0 THEN <<data>>
             ELSE <<SubSeq(data, 1, n - 1)>>
                   \o ReadLines(SubSeq(data, n + 1, Len(data)))

\* f"{n:02}" for the integers the model renders
Digit(n) == <<"0", "1", "2", "3", "4", "5", "6", "7", "8", "9">>[n + 1]

RECURSIVE Decimal(_)
Decimal(n) ==
    IF n < 10 THEN <<Digit(n)>> ELSE Decimal(n \div 10) \o <<Digit(n % 10)>>

Pad2(n) ==
    IF n < 0 THEN <<"-">> \o Decimal(0 - n)
    ELSE IF n < 10 THEN <<"0", Digit(n)>>
    ELSE Decimal(n)

\* variant: the two fields are not padded
convert_minutes_unpadded(minutes) ==
    LET hours == minutes \div 60
        mins  == minutes % 60
    IN  Decimal(hours) \o <<":">> \o Decimal(mins) \o <<":", "0", "0">>

convert_minutes_to_time(minutes) ==
    LET hours == minutes \div 60
        mins  == minutes % 60
    IN  Pad2(hours) \o <<":">> \o Pad2(mins) \o <<":", "0", "0">>

----------------------------------------------------------------------------
(* The ledger: dict employee_no -> set of timestamps, and its file *)

EmptyDict == <<>>

\* sent_timestamps[employee_no].add(timestamp), creating the set if needed
DictAdd(d, emp, ts) ==
    [e \in (DOMAIN d) \cup {emp} |->
        IF e = emp
        THEN (IF e \in DOMAIN d THEN d[e] ELSE {}) \cup {ts}
        ELSE d[e]]

\* if employee_no not in sent_timestamps: sent_timestamps[employee_no] = set()
DictEnsure(d, emp) ==
    [e \in (DOMAIN d) \cup {emp} |-> IF e \in DOMAIN d THEN d[e] ELSE {}]

\* variant: the membership test never finds the timestamp
ContainsNever(d, emp, ts) == FALSE

\* timestamp in sent_timestamps[employee_no]
Contains(d, emp, ts) == emp \in DOMAIN d /\ ts \in d[emp]

\* the (employee_no, timestamp) keys of a dict
KeysOf(d) == UNION {{<<e, ts>> : ts \in d[e]} : e \in DOMAIN d}

\* the text save_sent_timestamp writes for one record
FormatLine(emp, ts) == emp \o <<SP>> \o ts \o <<NL>>

\* line.strip().split(" ", 1) unpacks into two names only when the stripped
\* line holds a space
Parses(line) == FirstIndex(Strip(line), SP) # 0

ParseLine(line) ==
    LET s == Strip(line)
        n == FirstIndex(s, SP)
    IN  <<SubSeq(s, 1, n - 1), SubSeq(s, n + 1, Len(s))>>

RECURSIVE LoadLines(_, _)
LoadLines(lines, d) ==
    IF lines = <<>> THEN d
    ELSE LET kv == ParseLine(Head(lines))
         IN  LoadLines(Tail(lines), DictAdd(d, kv[1], kv[2]))

\* load_sent_timestamps: ok = FALSE stands for the ValueError that the
\* unpacking raises on a line without a space
load_sent_timestamps(exists, data) ==
    IF ~exists THEN [ok |-> TRUE, dict |-> EmptyDict]
    ELSE LET lines == ReadLines(data)
         IN  IF \A n \in 1..Len(lines) : Parses(lines[n])
             THEN [ok |-> TRUE, dict |-> LoadLines(lines, EmptyDict)]
             ELSE [ok |-> FALSE, dict |-> EmptyDict]

\* variant: the file is opened with mode "w"
save_sent_timestamp_truncates(data, emp, ts) == FormatLine(emp, ts)

\* the content of the file after save_sent_timestamp(emp, ts)
save_sent_timestamp(data, emp, ts) == data \o FormatLine(emp, ts)

----------------------------------------------------------------------------
(* Inputs: what the device, the HR backend and the clock can answer *)

EmpA == <<"a">>
EmpB == <<"b">>
\* employee.get("employeeNo") of a record without the key: falsy
NoEmployeeNo == <<>>
Date1 == <<"d">>

\* config.FETCH_INTERVAL, in clock units
FetchInterval == 1

\* one event for each of two employees
PBatch ==
    << [employeeNo |-> EmpA,
        detailInfo |-> << [dateTime |-> Date1, timeList |-> <<0>>] >>],
       [employeeNo |-> EmpB,
        detailInfo |-> << [dateTime |-> Date1, timeList |-> <<0>>] >>] >>

\* a record without employeeNo before a record with one
PNoId ==
    << [employeeNo |-> NoEmployeeNo,
        detailInfo |-> << [dateTime |-> Date1, timeList |-> <<90>>] >>],
       [employeeNo |-> EmpB,
        detailInfo |-> << [dateTime |-> Date1, timeList |-> <<0>>] >>] >>

\* the same minute offset listed twice for one employee and date
PDup ==
    << [employeeNo |-> EmpA,
        detailInfo |-> << [dateTime |-> Date1, timeList |-> <<0, 0>>] >>] >>

PEmpty == <<>>

Payloads == {PEmpty, PBatch, PNoId, PDup}

\* fetch_attendance_logs returns response.json() or None
FetchResults ==
    {[ok |-> FALSE, data |-> <<>>]} \cup {[ok |-> TRUE, data |-> p] : p \in Payloads}

\* "if logs:" None and an empty payload are falsy
Truthy(l) == l.ok /\ l.data # <<>>

\* fetch_all_shift_types returns the names, or [] when the call fails
ShiftLists == {<<>>, <<"S1", "S2">>}

\* timestamp = f"{date} {convert_minutes_to_time(time)}"
Timestamp(date, time) == date \o <<SP>> \o convert_minutes_to_time(time)

\* the events of one record, in the order process_logs visits them
RECURSIVE TimesOf(_, _, _)
TimesOf(emp, date, times) ==
    IF times = <<>> THEN <<>>
    ELSE <<<<emp, Timestamp(date, Head(times))>>>> \o TimesOf(emp, date, Tail(times))

RECURSIVE DetailsOf(_, _)
DetailsOf(emp, details) ==
    IF details = <<>> THEN <<>>
    ELSE TimesOf(emp, Head(details).dateTime, Head(details).timeList)
          \o DetailsOf(emp, Tail(details))

\* the events of a payload; a record without employeeNo gives none
RECURSIVE EventsOf(_)
EventsOf(data) ==
    IF data = <<>> THEN <<>>
    ELSE (IF Head(data).employeeNo = NoEmployeeNo THEN <<>>
          ELSE DetailsOf(Head(data).employeeNo, Head(data).detailInfo))
          \o EventsOf(Tail(data))

Range(f) == {f[x] : x \in DOMAIN f}

EventKeys(data) == Range(EventsOf(data))

\* the (employeeNo, timestamp) pairs of all the records of a payload, those
\* without employeeNo included
RECURSIVE RawEventsOf(_)
RawEventsOf(data) ==
    IF data = <<>> THEN <<>>
    ELSE DetailsOf(Head(data).employeeNo, Head(data).detailInfo)
          \o RawEventsOf(Tail(data))

\* the records of a payload that have an employeeNo
WithId(data) == SelectSeq(data, LAMBDA r : r.employeeNo # NoEmployeeNo)

\* every pair the device can report
AllKeys == UNION {Range(RawEventsOf(p)) : p \in Payloads}

----------------------------------------------------------------------------
(* State *)

VARIABLES
    pc,               \* position of the process in main / process_logs
    fileExists,       \* os.path.exists(sent_timestamps_log)
    fileData,         \* content of the ledger file
    sent_timestamps,  \* the in-memory ledger
    logs,             \* result of the fetch of this cycle
    i, j, t,          \* loop positions: record, detail, time
    start_time, end_time,
    clock,            \* datetime.now()
    sync_timestamp, shift_types, s,
    \* history, observed from outside the process
    cycLog,           \* per event: outcomes of the delivery calls of this cycle
    runLog,           \* per event: outcomes of the delivery calls of this run
    delivered,        \* per event: successful deliveries over all runs (2 = more)
    writes,           \* ledger writes of this cycle
    updates,          \* update calls of the running watermark stage
    loaded,           \* keys load_sent_timestamps returned in this run
    restarts,         \* restarts of the process so far
    faults,           \* failed backend calls and backward clock steps so far
    written,          \* keys save_sent_timestamp has written
    startedAbsent,    \* the ledger file was absent in the initial state
    \* convert_minutes_to_time on its own
    time,             \* the argument, an entry of a timeList
    hhmmss            \* the string returned

fileVars == <<fileExists, fileData>>
loopVars == <<i, j, t>>
timeVars == <<start_time, end_time>>
markVars == <<sync_timestamp, shift_types, s, updates>>
histVars == <<cycLog, runLog, delivered, writes, loaded, restarts, faults,
              written, startedAbsent>>
convVars == <<time, hhmmss>>
vars == <<pc, fileVars, sent_timestamps, logs, loopVars, timeVars, clock,
          markVars, histVars, convVars>>

NoLog == [k \in AllKeys |-> <<>>]
Zero == [k \in AllKeys |-> 0]
NoFetch == [ok |-> FALSE, data |-> <<>>]

\* datetime.now() is the local wall clock: a reading is the last one, or
\* later, or (a fault: the clock was set back, or daylight saving ended)
\* earlier than the last one
Now == {n \in 0..MaxClock : /\ n <= clock + 1
                            /\ n < clock => faults < MaxFaults}

SteppedBack(n) == IF n < clock THEN faults + 1 ELSE faults

FailedIn(log) == {k \in AllKeys : FALSE \in Range(log[k])}
OkIn(log) == {k \in AllKeys : TRUE \in Range(log[k])}

FileKeys == KeysOf(load_sent_timestamps(fileExists, fileData).dict)
MemKeys == KeysOf(sent_timestamps)

Init ==
    /\ pc = "load"
    /\ fileExists = FALSE
    /\ fileData = <<>>
    /\ sent_timestamps = EmptyDict
    /\ logs = NoFetch
    /\ i = 1 /\ j = 1 /\ t = 1
    /\ start_time = 0 /\ end_time = 0
    /\ clock = 0
    /\ sync_timestamp = 0 /\ shift_types = <<>> /\ s = 1
    /\ cycLog = NoLog /\ runLog = NoLog /\ delivered = Zero
    /\ writes = 0 /\ updates = <<>>
    /\ loaded = {}
    /\ restarts = 0
    /\ faults = 0
    /\ written = {}
    /\ startedAbsent = TRUE
    /\ time = 0 /\ hhmmss = <<>>

----------------------------------------------------------------------------
(* main and process_logs, one action per step *)

CurEmployee == logs.data[i]
CurDetail == CurEmployee.detailInfo[j]
CurEmp == CurEmployee.employeeNo
CurTs == Timestamp(CurDetail.dateTime, CurDetail.timeList[t])
CurKey == <<CurEmp, CurTs>>

\* main, lines 182-184: load the ledger, set the first window
Load ==
    /\ pc = "load"
    /\ LET r == load_sent_timestamps(fileExists, fileData)
       IN  IF r.ok
           THEN /\ sent_timestamps' = r.dict
                /\ loaded' = KeysOf(r.dict)
                /\ \E n \in Now :
                     /\ clock' = n
                     /\ faults' = SteppedBack(n)
                     /\ end_time' = n
                     /\ start_time' = n - FetchInterval
                /\ pc' = "fetch"
           ELSE /\ pc' = "dead"
                /\ UNCHANGED <<sent_timestamps, loaded, clock, faults, timeVars>>
    /\ UNCHANGED <<fileVars, logs, loopVars, markVars, cycLog, runLog,
                   delivered, writes, restarts, written, startedAbsent,
                   convVars>>

\* main, lines 187-192: fetch the window, call process_logs on a truthy result
Fetch ==
    /\ pc = "fetch"
    /\ \E r \in FetchResults :
         /\ logs' = r
         /\ pc' = IF Truthy(r) THEN "emp" ELSE "advance"
    /\ UNCHANGED <<fileVars, sent_timestamps, loopVars, timeVars, clock, markVars,
                   histVars, convVars>>

\* variant: a record without employeeNo is processed like the others
NextEmployeeNoSkip ==
    /\ pc = "emp"
    /\ i <= Len(logs.data)
    /\ sent_timestamps' = DictEnsure(sent_timestamps, CurEmp)
    /\ j' = 1 /\ t' = 1
    /\ pc' = "detail"
    /\ UNCHANGED <<i, fileVars, logs, timeVars, clock, markVars, histVars, convVars>>

\* process_logs, lines 140-146: next record, skipped without employeeNo
NextEmployee ==
    /\ pc = "emp"
    /\ i <= Len(logs.data)
    /\ IF CurEmp = NoEmployeeNo
       THEN /\ i' = i + 1
            /\ UNCHANGED <<pc, j, t, sent_timestamps>>
       ELSE /\ sent_timestamps' = DictEnsure(sent_timestamps, CurEmp)
            /\ j' = 1 /\ t' = 1
            /\ pc' = "detail"
            /\ UNCHANGED i
    /\ UNCHANGED <<fileVars, logs, timeVars, clock, markVars, histVars, convVars>>

\* process_logs, lines 148-149: next detail of the record
NextDetail ==
    /\ pc = "detail"
    /\ IF j <= Len(CurEmployee.detailInfo)
       THEN /\ t' = 1
            /\ pc' = "time"
            /\ UNCHANGED <<i, j>>
       ELSE /\ i' = i + 1
            /\ pc' = "emp"
            /\ UNCHANGED <<j, t>>
    /\ UNCHANGED <<fileVars, sent_timestamps, logs, timeVars, clock, markVars,
                   histVars, convVars>>

\* process_logs, line 150: the time list of the detail is exhausted
EndTimes ==
    /\ pc = "time"
    /\ t > Len(CurDetail.timeList)
    /\ j' = j + 1
    /\ pc' = "detail"
    /\ UNCHANGED <<fileVars, sent_timestamps, logs, i, t, timeVars, clock,
                   markVars, histVars, convVars>>

\* process_logs, line 152: the event is in the ledger, no call
SkipSent ==
    /\ pc = "time"
    /\ t <= Len(CurDetail.timeList)
    /\ Contains(sent_timestamps, CurEmp, CurTs)
    /\ t' = t + 1
    /\ UNCHANGED <<pc, fileVars, sent_timestamps, logs, i, j, timeVars, clock,
                   markVars, histVars, convVars>>

\* one more successful delivery: 0, 1, and 2 for more than one
Once(n) == IF n = 0 THEN 1 ELSE 2

\* variant: the event is recorded whatever send_to_erpnext returns
SendSavesFailed ==
    /\ pc = "time"
    /\ t <= Len(CurDetail.timeList)
    /\ ~Contains(sent_timestamps, CurEmp, CurTs)
    /\ \E ok \in BOOLEAN :
         /\ ~ok => faults < MaxFaults
         /\ faults' = IF ok THEN faults ELSE faults + 1
         /\ cycLog' = [cycLog EXCEPT ![CurKey] = Append(@, ok)]
         /\ runLog' = [runLog EXCEPT ![CurKey] = Append(@, ok)]
         /\ delivered' = [delivered EXCEPT ![CurKey] = IF ok THEN Once(@) ELSE @]
    /\ pc' = "add"
    /\ UNCHANGED <<fileVars, sent_timestamps, logs, loopVars, timeVars, clock,
                   markVars, writes, loaded, restarts, written,
                   startedAbsent,
                   convVars>>

\* variant: a failed event is marked as sent in memory
SendMarksFailed ==
    /\ pc = "time"
    /\ t <= Len(CurDetail.timeList)
    /\ ~Contains(sent_timestamps, CurEmp, CurTs)
    /\ \E ok \in BOOLEAN :
         /\ ~ok => faults < MaxFaults
         /\ faults' = IF ok THEN faults ELSE faults + 1
         /\ cycLog' = [cycLog EXCEPT ![CurKey] = Append(@, ok)]
         /\ runLog' = [runLog EXCEPT ![CurKey] = Append(@, ok)]
         /\ delivered' = [delivered EXCEPT ![CurKey] = IF ok THEN Once(@) ELSE @]
         /\ pc' = IF ok THEN "add" ELSE "time"
         /\ t' = IF ok THEN t ELSE t + 1
         /\ sent_timestamps' =
                IF ok THEN sent_timestamps
                ELSE DictAdd(sent_timestamps, CurEmp, CurTs)
    /\ UNCHANGED <<fileVars, logs, i, j, timeVars, clock,
                   markVars, writes, loaded, restarts, written,
                   startedAbsent,
                   convVars>>

\* process_logs, lines 152-154: the event is not in the ledger,
\* send_to_erpnext returns True or False
Send ==
    /\ pc = "time"
    /\ t <= Len(CurDetail.timeList)
    /\ ~Contains(sent_timestamps, CurEmp, CurTs)
    /\ \E ok \in BOOLEAN :
         /\ ~ok => faults < MaxFaults
         /\ faults' = IF ok THEN faults ELSE faults + 1
         /\ cycLog' = [cycLog EXCEPT ![CurKey] = Append(@, ok)]
         /\ runLog' = [runLog EXCEPT ![CurKey] = Append(@, ok)]
         /\ delivered' = [delivered EXCEPT ![CurKey] = IF ok THEN Once(@) ELSE @]
         /\ pc' = IF ok THEN "add" ELSE "time"
         /\ t' = IF ok THEN t ELSE t + 1
    /\ UNCHANGED <<fileVars, sent_timestamps, logs, i, j, timeVars, clock,
                   markVars, writes, loaded, restarts, written,
                   startedAbsent,
                   convVars>>

\* variant: the delivered timestamp is not added to the set
AddSentForgets ==
    /\ pc = "add"
    /\ pc' = "save"
    /\ UNCHANGED <<fileVars, sent_timestamps, logs, loopVars, timeVars, clock,
                   markVars, histVars, convVars>>

\* process_logs, line 155
AddSent ==
    /\ pc = "add"
    /\ sent_timestamps' = DictAdd(sent_timestamps, CurEmp, CurTs)
    /\ pc' = "save"
    /\ UNCHANGED <<fileVars, logs, loopVars, timeVars, clock, markVars, histVars, convVars>>

\* process_logs, line 156: the record is appended to the file
SaveSent ==
    /\ pc = "save"
    /\ fileExists' = TRUE
    /\ fileData' = save_sent_timestamp(fileData, CurEmp, CurTs)
    /\ writes' = writes + 1
    /\ written' = written \cup {CurKey}
    /\ t' = t + 1
    /\ pc' = "time"
    /\ UNCHANGED <<sent_timestamps, logs, i, j, timeVars, clock, markVars,
                   cycLog, runLog, delivered, loaded, restarts, faults,
                   startedAbsent,
                   convVars>>

\* process_logs, line 156: open or write raises OSError; nothing in
\* process_logs or main catches it, the process ends
SaveRaises ==
    /\ pc = "save"
    /\ pc' = "dead"
    /\ UNCHANGED <<fileVars, sent_timestamps, logs, loopVars, timeVars, clock,
                   markVars, histVars, convVars>>

\* process_logs, lines 158-159: after the last record, the batch timestamp
\* and the list of shift types
StartSync ==
    /\ pc = "emp"
    /\ i > Len(logs.data)
    /\ \E n \in Now :
         /\ clock' = n
         /\ faults' = SteppedBack(n)
         /\ sync_timestamp' = n
    /\ \E l \in ShiftLists : shift_types' = l
    /\ s' = 1
    /\ pc' = "update"
    /\ UNCHANGED <<fileVars, sent_timestamps, logs, loopVars, timeVars, updates,
                   cycLog, runLog, delivered, writes, loaded, restarts, written,
                   startedAbsent,
                   convVars>>

\* variant: a failed update ends the loop over the shift types
UpdateShiftStops ==
    /\ pc = "update"
    /\ s <= Len(shift_types)
    /\ \E ok \in BOOLEAN :
         /\ ~ok => faults < MaxFaults
         /\ faults' = IF ok THEN faults ELSE faults + 1
         /\ updates' = Append(updates,
                         [name |-> shift_types[s], ts |-> sync_timestamp, ok |-> ok])
         /\ s' = IF ok THEN s + 1 ELSE Len(shift_types) + 1
    /\ UNCHANGED <<pc, fileVars, sent_timestamps, logs, loopVars, timeVars, clock,
                   sync_timestamp, shift_types, cycLog, runLog, delivered, writes,
                   loaded, restarts, written, startedAbsent,
                   convVars>>

\* process_logs, lines 160-161: update_last_sync_time logs its own failure
UpdateShift ==
    /\ pc = "update"
    /\ s <= Len(shift_types)
    /\ \E ok \in BOOLEAN :
         /\ ~ok => faults < MaxFaults
         /\ faults' = IF ok THEN faults ELSE faults + 1
         /\ updates' = Append(updates,
                         [name |-> shift_types[s], ts |-> sync_timestamp, ok |-> ok])
    /\ s' = s + 1
    /\ UNCHANGED <<pc, fileVars, sent_timestamps, logs, loopVars, timeVars, clock,
                   sync_timestamp, shift_types, cycLog, runLog, delivered, writes,
                   loaded, restarts, written, startedAbsent,
                   convVars>>

\* variant: after the updates the records are gone through again while an
\* event whose delivery failed is left
EndProcessRetries ==
    /\ pc = "update"
    /\ s > Len(shift_types)
    /\ pc' = IF FailedIn(cycLog) \ MemKeys # {} THEN "emp" ELSE "advance"
    /\ i' = 1 /\ j' = 1 /\ t' = 1
    /\ sync_timestamp' = 0 /\ shift_types' = <<>> /\ s' = 1
    /\ updates' = <<>>
    /\ UNCHANGED <<fileVars, sent_timestamps, logs, timeVars, clock,
                   histVars, convVars>>

\* process_logs returns, its locals are gone
EndProcess ==
    /\ pc = "update"
    /\ s > Len(shift_types)
    /\ pc' = "advance"
    /\ i' = 1 /\ j' = 1 /\ t' = 1
    /\ sync_timestamp' = 0 /\ shift_types' = <<>> /\ s' = 1
    /\ updates' = <<>>
    /\ UNCHANGED <<fileVars, sent_timestamps, logs, timeVars, clock,
                   histVars, convVars>>

\* variant: the window start is not moved
AdvanceStale ==
    /\ pc = "advance"
    /\ \E n \in Now :
         /\ clock' = n
         /\ faults' = SteppedBack(n)
         /\ end_time' = n
    /\ pc' = "fetch"
    /\ cycLog' = NoLog
    /\ writes' = 0
    /\ updates' = <<>>
    /\ UNCHANGED <<fileVars, sent_timestamps, logs, loopVars, start_time,
                   sync_timestamp, shift_types, s, runLog, delivered, loaded,
                   restarts, written, startedAbsent,
                   convVars>>

\* variant: lines 194 and 195 in the other order
AdvanceSwapped ==
    /\ pc = "advance"
    /\ \E n \in Now :
         /\ clock' = n
         /\ faults' = SteppedBack(n)
         /\ end_time' = n
         /\ start_time' = n
    /\ pc' = "fetch"
    /\ cycLog' = NoLog
    /\ writes' = 0
    /\ updates' = <<>>
    /\ UNCHANGED <<fileVars, sent_timestamps, logs, loopVars, sync_timestamp,
                   shift_types, s, runLog, delivered, loaded, restarts,
                   written, startedAbsent,
                   convVars>>

\* main, lines 194-195
Advance ==
    /\ pc = "advance"
    /\ start_time' = end_time
    /\ \E n \in Now :
         /\ clock' = n
         /\ faults' = SteppedBack(n)
         /\ end_time' = n
    /\ pc' = "fetch"
    /\ cycLog' = NoLog
    /\ writes' = 0
    /\ updates' = <<>>
    /\ UNCHANGED <<fileVars, sent_timestamps, logs, loopVars, sync_timestamp,
                   shift_types, s, runLog, delivered, loaded, restarts,
                   written, startedAbsent,
                   convVars>>

\* the process is killed, or has ended, and is started again: only the
\* file survives
Restart ==
    /\ pc # "load"
    /\ restarts < MaxRestarts
    /\ restarts' = restarts + 1
    /\ pc' = "load"
    /\ sent_timestamps' = EmptyDict
    /\ logs' = NoFetch
    /\ i' = 1 /\ j' = 1 /\ t' = 1
    /\ start_time' = 0 /\ end_time' = 0
    /\ sync_timestamp' = 0 /\ shift_types' = <<>> /\ s' = 1
    /\ cycLog' = NoLog /\ runLog' = NoLog
    /\ writes' = 0 /\ updates' = <<>>
    /\ loaded' = {}
    /\ UNCHANGED <<fileVars, clock, delivered, faults, written, startedAbsent,
                   convVars>>

Next ==
    \/ Load
    \/ Fetch
    \/ NextEmployee
    \/ NextDetail
    \/ EndTimes
    \/ SkipSent
    \/ Send
    \/ AddSent
    \/ SaveSent
    \/ SaveRaises
    \/ StartSync
    \/ UpdateShift
    \/ EndProcess
    \/ Advance
    \/ Restart

Spec == Init /\ [][Next]_vars

----------------------------------------------------------------------------
(* The ledger file on its own: save_sent_timestamp and load_sent_timestamps *)
(* applied to any keys and to any file content                              *)

LedgerEmps == {<<"a">>, <<"b">>, <<"a", SP, "b">>, <<>>}
LedgerTss == {<<"t">>, <<"b", SP, "t">>, <<"t", SP>>, <<"t", NL, "b">>, <<>>}
LedgerKeys == LedgerEmps \X LedgerTss

RawChars == {"a", SP, NL}
RawFiles == UNION {[1..n -> RawChars] : n \in 0..MaxRaw}

LedgerInit ==
    /\ pc = "ledger"
    /\ \/ fileExists = FALSE /\ fileData = <<>>
       \/ fileExists = TRUE /\ fileData \in RawFiles
    /\ startedAbsent = ~fileExists
    /\ sent_timestamps = EmptyDict
    /\ logs = NoFetch
    /\ i = 1 /\ j = 1 /\ t = 1
    /\ start_time = 0 /\ end_time = 0
    /\ clock = 0
    /\ sync_timestamp = 0 /\ shift_types = <<>> /\ s = 1
    /\ cycLog = NoLog /\ runLog = NoLog /\ delivered = Zero
    /\ writes = 0 /\ updates = <<>>
    /\ loaded = {}
    /\ restarts = 0
    /\ faults = 0
    /\ written = {}
    /\ time = 0 /\ hhmmss = <<>>

\* save_sent_timestamp(employee_no, timestamp) with a key not written before
LedgerSave ==
    /\ pc = "ledger"
    /\ Cardinality(written) < MaxWrites
    /\ \E k \in LedgerKeys \ written :
         /\ fileData' = save_sent_timestamp(fileData, k[1], k[2])
         /\ written' = written \cup {k}
    /\ fileExists' = TRUE
    /\ UNCHANGED <<pc, sent_timestamps, logs, loopVars, timeVars, clock, markVars,
                   cycLog, runLog, delivered, writes, loaded, restarts, faults,
                   startedAbsent,
                   convVars>>

\* load_sent_timestamps() returns a dict or raises
LedgerLoad ==
    /\ pc = "ledger"
    /\ LET r == load_sent_timestamps(fileExists, fileData)
       IN  /\ pc' = IF r.ok THEN "loaded" ELSE "dead"
           /\ sent_timestamps' = r.dict
           /\ loaded' = KeysOf(r.dict)
    /\ UNCHANGED <<fileVars, logs, loopVars, timeVars, clock, markVars, cycLog,
                   runLog, delivered, writes, restarts, faults, written,
                   startedAbsent,
                   convVars>>

LedgerNext ==
    \/ LedgerSave
    \/ LedgerLoad

SpecLedger == LedgerInit /\ [][LedgerNext]_vars

----------------------------------------------------------------------------
(* convert_minutes_to_time on its own: one call for every minute count *)

ConvertInit ==
    /\ pc = "convert"
    /\ time \in 0..MaxMinutes
    /\ hhmmss = <<>>
    /\ fileExists = FALSE /\ fileData = <<>>
    /\ startedAbsent = TRUE
    /\ sent_timestamps = EmptyDict
    /\ logs = NoFetch
    /\ i = 1 /\ j = 1 /\ t = 1
    /\ start_time = 0 /\ end_time = 0
    /\ clock = 0
    /\ sync_timestamp = 0 /\ shift_types = <<>> /\ s = 1
    /\ cycLog = NoLog /\ runLog = NoLog /\ delivered = Zero
    /\ writes = 0 /\ updates = <<>>
    /\ loaded = {}
    /\ restarts = 0
    /\ faults = 0
    /\ written = {}

\* process_logs, line 151: convert_minutes_to_time(time)
Convert ==
    /\ pc = "convert"
    /\ hhmmss' = convert_minutes_to_time(time)
    /\ pc' = "converted"
    /\ UNCHANGED <<time, fileVars, sent_timestamps, logs, loopVars, timeVars,
                   clock, markVars, histVars>>

ConvertNext == Convert

SpecConvert == ConvertInit /\ [][ConvertNext]_vars

----------------------------------------------------------------------------
(* The ledger over several runs: events are delivered and recorded, the
   process is stopped and started again; employee numbers may hold a space *)

RunEmps == {EmpA, EmpB, <<"a", SP, "b">>}
RunKeys == RunEmps \X {Timestamp(Date1, 0), Timestamp(Date1, 90)}

RunInit ==
    /\ pc = "run"
    /\ fileExists = FALSE /\ fileData = <<>>
    /\ startedAbsent = TRUE
    /\ sent_timestamps = EmptyDict
    /\ logs = NoFetch
    /\ i = 1 /\ j = 1 /\ t = 1
    /\ start_time = 0 /\ end_time = 0
    /\ clock = 0
    /\ sync_timestamp = 0 /\ shift_types = <<>> /\ s = 1
    /\ cycLog = NoLog /\ runLog = NoLog /\ delivered = Zero
    /\ writes = 0 /\ updates = <<>>
    /\ loaded = {}
    /\ restarts = 0
    /\ faults = 0
    /\ written = {}
    /\ time = 0 /\ hhmmss = <<>>

\* process_logs, lines 145-156, for an event that is fetched and whose
\* delivery succeeds: no call when the in-memory ledger holds the event
RunDeliver ==
    /\ pc = "run"
    /\ Len(ReadLines(fileData)) < MaxWrites
    /\ \E k \in RunKeys :
         /\ ~Contains(DictEnsure(sent_timestamps, k[1]), k[1], k[2])
         /\ sent_timestamps' = DictAdd(DictEnsure(sent_timestamps, k[1]), k[1], k[2])
         /\ fileData' = save_sent_timestamp(fileData, k[1], k[2])
         /\ written' = written \cup {k}
    /\ fileExists' = TRUE
    /\ UNCHANGED <<pc, logs, loopVars, timeVars, clock, markVars, cycLog, runLog,
                   delivered, writes, loaded, restarts, faults, startedAbsent,
                   convVars>>

\* the process is stopped and started again: main, line 182
RunReload ==
    /\ pc = "run"
    /\ restarts < MaxRestarts
    /\ restarts' = restarts + 1
    /\ LET r == load_sent_timestamps(fileExists, fileData)
       IN  /\ pc' = IF r.ok THEN "run" ELSE "dead"
           /\ sent_timestamps' = r.dict
           /\ loaded' = KeysOf(r.dict)
    /\ UNCHANGED <<fileVars, logs, loopVars, timeVars, clock, markVars, cycLog,
                   runLog, delivered, writes, faults, written, startedAbsent,
                   convVars>>

RunNext ==
    \/ RunDeliver
    \/ RunReload

SpecRuns == RunInit /\ [][RunNext]_vars

----------------------------------------------------------------------------
(* Properties *)

\* the event loop of the process_logs call of this cycle has finished
LoopDone == pc \in {"update", "advance"}

\* the outcomes of the delivery calls for k in the earlier cycles of this run
Earlier(k) == SubSeq(runLog[k], 1, Len(runLog[k]) - Len(cycLog[k]))

Successes(log) == Cardinality({n \in DOMAIN log : log[n]})

\* C1, as claimed: over all cycles, failures and restarts no event is
\* successfully delivered more than once
C1_NeverDeliveredTwice ==
    \A k \in AllKeys : delivered[k] <= 1

\* C1, amended: within one run of the process no event is successfully
\* delivered more than once, and an event whose key load_sent_timestamps
\* returned at the start of the run gets no delivery call in that run
C1_OncePerRun ==
    \A k \in AllKeys :
        /\ Successes(runLog[k]) <= 1
        /\ k \in loaded => runLog[k] = <<>>

\* an event delivered in an earlier run was loaded after the restart, was
\* fetched again and the cycle finished without a delivery call for it
C1_Witness ==
    \E k \in AllKeys :
        /\ restarts >= 1
        /\ pc = "advance"
        /\ k \in loaded
        /\ k \in EventKeys(logs.data)
        /\ delivered[k] = 1

\* C2, as claimed: an event that an earlier cycle of the run fetched and
\* found missing from the ledger, and that this cycle fetched again, has had
\* exactly one delivery call when this cycle has processed its events
C2_ExactlyOneCall ==
    \A k \in AllKeys :
        (LoopDone /\ Earlier(k) # <<>> /\ k \in EventKeys(logs.data))
            => Len(runLog[k]) = 1

\* C2, amended: an event whose first delivery call of the run returned
\* success has exactly one delivery call in the run, and a cycle that
\* fetches it again makes no call for it
C2_OneCallAfterSuccess ==
    \A k \in AllKeys :
        (runLog[k] # <<>> /\ runLog[k][1])
            => /\ Len(runLog[k]) = 1
               /\ Earlier(k) # <<>> => cycLog[k] = <<>>

\* a second cycle that fetched a delivered event has finished with the one
\* delivery call of the first cycle
C2_Witness ==
    \E k \in AllKeys :
        /\ pc = "advance"
        /\ Earlier(k) = <<TRUE>>
        /\ k \in EventKeys(logs.data)
        /\ runLog[k] = <<TRUE>>
        /\ cycLog[k] = <<>>

\* C3: a key in the in-memory ledger was loaded at the start of the run or
\* had a delivery call of this run return success; a key in the file (absent
\* at first) had a delivery call return success
C3_LedgerOnlyDelivered ==
    /\ \A k \in MemKeys :
          k \in loaded \/ (k \in AllKeys /\ TRUE \in Range(runLog[k]))
    /\ \A k \in FileKeys : k \in AllKeys /\ delivered[k] >= 1

\* after a restart the ledger holds a loaded key and a key that was delivered
\* in this run, by the call that followed a failed one
C3_Witness ==
    \E k1, k2 \in AllKeys :
        /\ k1 \in loaded /\ k1 \in MemKeys
        /\ k2 \notin loaded /\ k2 \in MemKeys /\ k2 \in FileKeys
        /\ runLog[k2] = <<FALSE, TRUE>>

\* C4: in a cycle with several distinct events of which one delivery failed,
\* the process does not end, and once the events are processed every delivered
\* event is in the ledger, in memory and in the file, and no failed one is
C4_PartialFailureIsolated ==
    (Cardinality(EventKeys(logs.data)) >= 2 /\ FailedIn(cycLog) # {})
        => /\ pc # "dead"
           /\ LoopDone =>
                /\ OkIn(cycLog) \subseteq (MemKeys \cap FileKeys)
                /\ (FailedIn(cycLog) \ OkIn(cycLog)) \cap (MemKeys \cup FileKeys) = {}

C6_MemoryIsDurable ==
    MemKeys \subseteq FileKeys

\* C7: after any distinct records were written to an absent file, the load
\* returns a dict whose keys are exactly the written keys
C7_RoundTrip ==
    (pc \in {"loaded", "dead"} /\ startedAbsent)
        => (pc = "loaded" /\ KeysOf(sent_timestamps) = written)

\* C8: a cycle whose fetch failed or returned nothing reaches the end of the
\* loop body without a delivery call and without a ledger write, and the
\* next window starts where this one ended
C8_EmptyFetch ==
    [][(pc = "advance" /\ ~Truthy(logs))
          => /\ \A k \in AllKeys : cycLog[k] = <<>>
             /\ writes = 0
             /\ pc' = "fetch" => (start_time' = end_time /\ UNCHANGED fileVars)]_vars

\* after a cycle with an empty fetch result the window has moved from
\* (-1, 0) to (0, 1)
C8_Witness ==
    /\ pc = "fetch"
    /\ logs.ok /\ logs.data = <<>>
    /\ start_time = 0 /\ end_time = 1
    /\ ~fileExists

\* C9: no failure ends the process
C9_LoopNeverEnds ==
    pc # "dead"

\* C10: a load of a file with a line that does not parse returns the dict of
\* the lines that do
C10_MalformedSkipped ==
    pc \in {"loaded", "dead"}
        => /\ pc = "loaded"
           /\ sent_timestamps = LoadLines(SelectSeq(ReadLines(fileData), Parses), EmptyDict)

\* a step from one iteration of the poll loop to the next one
NextIteration == pc = "advance" /\ pc' = "fetch"

\* C11 as stated: between two consecutive iterations, whatever the earlier
\* cycle did, the later window starts where the earlier one ended, and the
\* later window does not end before it starts
C11_WindowsAdjacentAndOrdered ==
    [][NextIteration => /\ start_time' = end_time
                        /\ end_time' >= start_time']_vars

\* C11, amended: between two consecutive iterations, whatever the earlier
\* cycle did, the later window starts where the earlier one ended, and it ends
\* at the wall-clock time read at that moment; that end is before the start
\* only when the wall clock has stepped back below the earlier end
C11_WindowsAdjacent ==
    [][NextIteration => /\ start_time' = end_time
                        /\ end_time' = clock'
                        /\ (end_time' < start_time' => clock' < end_time)]_vars

\* a cycle that processed a batch has moved the window from [-1, 0) to [0, 1)
C11_Witness ==
    /\ pc = "fetch"
    /\ logs.ok /\ logs.data = PBatch
    /\ start_time = 0 /\ end_time = 1
    /\ restarts = 0

\* the update calls of this cycle for one shift type
UpdatesOf(name) == {k \in 1..Len(updates) : updates[k].name = name}

\* C12: in the watermark stage the shift types before position s have got
\* exactly one update call each, whether or not an earlier call failed, the
\* others none yet, and every call carries the one timestamp taken at line
\* 158; the stage ends with s past the list, so with one call for every one
C12_OneUpdatePerShiftType ==
    pc = "update" =>
        /\ Len(updates) = s - 1
        /\ \A k \in 1..Len(shift_types) :
             Cardinality(UpdatesOf(shift_types[k])) = IF k < s THEN 1 ELSE 0
        /\ \A k \in 1..Len(updates) : updates[k].ts = sync_timestamp

\* the stage is over for two shift types, and the update of the first failed
C12_Witness ==
    /\ pc = "update"
    /\ Len(shift_types) = 2
    /\ s > Len(shift_types)
    /\ ~updates[1].ok
    /\ updates[2].ok
    /\ updates[2].name = shift_types[2]

\* the minute counts of one day
MinutesOfDay == 0..(24 * 60 - 1)

IsDigit(c) == \E d \in 0..9 : Digit(d) = c

\* the number two decimal digits stand for
TwoDigits(c1, c2) ==
    10 * (CHOOSE d \in 0..9 : Digit(d) = c1) + (CHOOSE d \in 0..9 : Digit(d) = c2)

\* C13: for every minute count m of a day, convert_minutes_to_time(m) is the
\* eight characters HH:MM:00, where the two digits HH read m div 60 and the
\* two digits MM read m mod 60; 0 gives 00:00:00, 90 gives 01:30:00 and 1439
\* gives 23:59:00
C13_ClockString ==
    (pc = "converted" /\ time \in MinutesOfDay) =>
        /\ Len(hhmmss) = 8
        /\ \A k \in {1, 2, 4, 5} : IsDigit(hhmmss[k])
        /\ TwoDigits(hhmmss[1], hhmmss[2]) = time \div 60
        /\ TwoDigits(hhmmss[4], hhmmss[5]) = time % 60
        /\ hhmmss[3] = ":"
        /\ <<hhmmss[6], hhmmss[7], hhmmss[8]>> = <<":", "0", "0">>
        /\ time = 0 => hhmmss = <<"0", "0", ":", "0", "0", ":", "0", "0">>
        /\ time = 90 => hhmmss = <<"0", "1", ":", "3", "0", ":", "0", "0">>
        /\ time = 1439 => hhmmss = <<"2", "3", ":", "5", "9", ":", "0", "0">>

\* the last minute of a day has been converted
C13_Witness ==
    /\ pc = "converted"
    /\ time = 1439
    /\ hhmmss = <<"2", "3", ":", "5", "9", ":", "0", "0">>

\* the pairs of the records without employeeNo
NoIdKeys == {k \in AllKeys : k[1] = NoEmployeeNo}

\* the events that got a delivery call in this cycle
Called == {k \in AllKeys : cycLog[k] # <<>>}

\* C14: a record without employeeNo gives no event: none of its pairs gets a
\* delivery call or a ledger write; the calls of a cycle are calls for events
\* of the payload without such records, and when the loop over the payload
\* is over every event of that payload is in the ledger or has got its call,
\* as for a payload that never had the record
C14_NoIdContributesNothing ==
    /\ \A k \in NoIdKeys :
         /\ runLog[k] = <<>> /\ cycLog[k] = <<>> /\ delivered[k] = 0
         /\ k \notin written \cup MemKeys
    /\ Called \subseteq Range(RawEventsOf(WithId(logs.data)))
    /\ LoopDone =>
         \A k \in Range(RawEventsOf(WithId(logs.data))) :
            k \in Called \cup MemKeys

\* the payload with a record without employeeNo has been processed: the one
\* event of the other record was delivered and written
C14_Witness ==
    /\ LoopDone
    /\ logs.data = PNoId
    /\ cycLog[<<EmpB, Timestamp(Date1, 0)>>] = <<TRUE>>
    /\ writes = 1
    /\ FileKeys = {<<EmpB, Timestamp(Date1, 0)>>}

\* C15: a cycle whose fetch succeeded, with or without records, is done only
\* by leaving the watermark stage: the step that brings the process to the
\* end of the iteration is the return of process_logs after the updates
C15_WatermarkUnlessFetchFailed ==
    [][(pc # "advance" /\ pc' = "advance" /\ logs'.ok) => pc = "update"]_vars

\* the process goes on in the same cycle of the same run
SameCycle == pc' \notin {"load", "fetch"}

\* C16: the shift types are fetched on the one step that enters the
\* watermark stage, the stage is left only for the end of the iteration, and
\* once its first update call is made the cycle makes no delivery call and
\* no ledger write, in memory or in the file, whatever the outcomes of the
\* delivery calls were
C16_WatermarkAfterEvents ==
    [][/\ pc = "update" => pc' \in {"update", "advance", "load"}
       /\ pc = "advance" => pc' \in {"advance", "fetch", "load"}
       /\ (updates # <<>> /\ SameCycle) =>
             /\ cycLog' = cycLog
             /\ writes' = writes
             /\ fileData' = fileData
             /\ sent_timestamps' = sent_timestamps]_vars

\* the only delivery call of the cycle failed, and the watermark stage has
\* made its first update call
C16_Witness ==
    /\ pc = "update"
    /\ logs.data = PNoId
    /\ cycLog[<<EmpB, Timestamp(Date1, 0)>>] = <<FALSE>>
    /\ writes = 0
    /\ Len(updates) = 1

\* C17: in one cycle no event gets more than one delivery call, whether the
\* call fails or not and however often the payload lists the event
C17_OneCallPerCycle ==
    \A k \in AllKeys : Len(cycLog[k]) <= 1

IsPrefix(a, b) == Len(a) <= Len(b) /\ SubSeq(b, 1, Len(a)) = a

\* the step starts a new run of the process
NewRun == pc # "load" /\ pc' = "load"

\* C18: no step removes or rewrites a part of the ledger file: the content
\* before the step is a prefix of the content after it, and a file that
\* exists goes on existing; and no step of a run removes a key from the
\* in-memory ledger, or an employee from its mapping
C18_LedgerOnlyGrows ==
    [][/\ IsPrefix(fileData, fileData')
       /\ fileExists => fileExists'
       /\ ~NewRun =>
             /\ MemKeys \subseteq KeysOf(sent_timestamps')
             /\ DOMAIN sent_timestamps \subseteq DOMAIN sent_timestamps']_vars

\* in one run an event was delivered and written in an earlier cycle and
\* another one in this cycle: both are in the file and in memory
C18_Witness ==
    \E k1, k2 \in AllKeys :
        /\ k1 # k2
        /\ restarts = 0
        /\ Earlier(k1) = <<TRUE>>
        /\ cycLog[k2] = <<TRUE>>
        /\ {k1, k2} \subseteq (MemKeys \cap FileKeys)

\* C19: from an absent file, whatever is delivered and however often the
\* process is started again, no two lines of the ledger file are records of
\* the same key
C19_NoDuplicateRecords ==
    LET lines == ReadLines(fileData)
    IN  \A m, n \in DOMAIN lines : lines[m] = lines[n] => m = n

============================================================================
